---- MODULE Spec2Model ----
(***************************************************************************)
(* Model of the audio-driven lip-sync pipeline: phoneme -> viseme mapping  *)
(* (visemes/map.py), viseme smoothing (visemes/smooth.py), frame sampling  *)
(* (render/renderer.py) and the orchestration (main.py).                   *)
(*                                                                         *)
(* Times are Python floats in seconds.  They are modelled as integers in   *)
(* ticks of 1e-7 s, fine enough to tell a gap below the merge tolerance    *)
(* (1e-6 s) from one at or above it.  Every input time is a multiple of 5  *)
(* ticks, so the plosive stretch (duration * 0.2) is exact.  Arithmetic is  *)
(* exact: the rounding of IEEE doubles is not represented.                 *)
(***************************************************************************)
EXTENDS Integers, Sequences, FiniteSets, TLC

VARIABLES
    pc,             \* position of the running call
    exc,            \* exception raised by the call ("none" when none)
    result,         \* value returned by the call (meaningful when pc = "returned")
    phonemes,       \* argument of phonemes_to_visemes
    visemes,        \* argument of smooth_visemes / render_sequence
    visemes_sorted, \* smooth_visemes: local visemes_sorted
    step1,          \* smooth_visemes: local step1
    step2,          \* smooth_visemes: local step2
    step3,          \* smooth_visemes: local step3
    step4,          \* smooth_visemes: local step4
    duration,       \* argument of render_sequence, in ticks
    frame_count,    \* render_sequence: local frame_count
    frames,         \* render_sequence: local frames
    n_samples,      \* audio_buffer.samples.shape[0]
    phoneme_mode,   \* environment variable PHONEME_MODE
    ffmpeg_ok,      \* whether the external ffmpeg process exits with code 0
    stages          \* _orchestrate: the stages completed so far, in order

vars == <<pc, exc, result, phonemes, visemes, visemes_sorted, step1, step2,
          step3, step4, duration, frame_count, frames, n_samples,
          phoneme_mode, ffmpeg_ok, stages>>

----------------------------------------------------------------------------
(* Units and program constants *)

TicksPerSecond == 10 * 1000 * 1000

\* a time given in milliseconds, as ticks
Ms(n) == n * (TicksPerSecond \div 1000)

MIN_VISEME_DURATION == (8 * TicksPerSecond) \div 100

PLOSIVE_VISEME_NAME == "PBM"

\* PLOSIVE_STRETCH_FACTOR = 1.2, as the fraction 12/10
PLOSIVE_STRETCH_NUM == 12

PLOSIVE_STRETCH_DEN == 10

\* the literal 1e-6 of _merge_adjacent_identical
MERGE_TOLERANCE == TicksPerSecond \div 1000000

FPS == 8

SAMPLE_RATE == 22050

Abs(x) == IF x < 0 THEN -x ELSE x

Min(a, b) == IF a <= b THEN a ELSE b

Max(a, b) == IF a >= b THEN a ELSE b

\* dataclass Viseme
Viseme(name, start, end) == [name |-> name, start |-> start, end |-> end]

\* dataclass Phoneme
Phoneme(symbol, start, end) == [symbol |-> symbol, start |-> start, end |-> end]

\* the value of a call: the exception it raised, or its return value
Returned(v) == [exc |-> "none", val |-> v]

Raised(e) == [exc |-> e, val |-> <<>>]

----------------------------------------------------------------------------
(* visemes/smooth.py *)

\* a mutation of ShouldMerge: the category comparison is dropped
ShouldMerge_AnyName(current, v) ==
    Abs(v.start - current.end) < MERGE_TOLERANCE

\* the merge condition of _merge_adjacent_identical (line 27)
ShouldMerge(current, v) ==
    v.name = current.name /\ Abs(v.start - current.end) < MERGE_TOLERANCE

RECURSIVE MergeLoop(_, _, _)
\* the for loop of _merge_adjacent_identical over visemes[1:]
MergeLoop(rest, current, merged) ==
    IF rest = <<>>
    THEN Returned(Append(merged, current))
    ELSE LET v == Head(rest) IN
         IF v.start < current.start
         THEN Raised("AssertionError")
         ELSE IF ShouldMerge(current, v)
              THEN MergeLoop(Tail(rest),
                             Viseme(current.name, current.start, Max(current.end, v.end)),
                             merged)
              ELSE MergeLoop(Tail(rest), v, Append(merged, current))

merge_adjacent_identical(vs) ==
    IF vs = <<>> THEN Returned(<<>>) ELSE MergeLoop(Tail(vs), vs[1], <<>>)

\* a mutation of EnforceOne: the clip against the next start is dropped
EnforceOne_NoClip(vs, i) ==
    LET v == vs[i] IN
    IF v.end - v.start >= MIN_VISEME_DURATION
    THEN v
    ELSE Viseme(v.name, v.start, v.start + MIN_VISEME_DURATION)

\* a mutation of EnforceOne: a clipped interval is moved back to keep the
\* minimum duration
EnforceOne_ShiftStart(vs, i) ==
    LET v == vs[i]
        n == Len(vs)
        target_end == v.start + MIN_VISEME_DURATION
        new_end == IF i < n THEN Min(target_end, vs[i + 1].start) ELSE target_end
    IN  IF v.end - v.start >= MIN_VISEME_DURATION
        THEN v
        ELSE Viseme(v.name, new_end - MIN_VISEME_DURATION, new_end)

\* a mutation of EnforceOne: only the last interval is extended
EnforceOne_OnlyLast(vs, i) ==
    LET v == vs[i] IN
    IF v.end - v.start >= MIN_VISEME_DURATION \/ i < Len(vs)
    THEN v
    ELSE Viseme(v.name, v.start, v.start + MIN_VISEME_DURATION)

\* one iteration of the loop of _enforce_min_duration
EnforceOne(vs, i) ==
    LET v == vs[i]
        n == Len(vs)
        target_end == v.start + MIN_VISEME_DURATION
    IN  IF v.end - v.start >= MIN_VISEME_DURATION
        THEN v
        ELSE Viseme(v.name, v.start,
                    IF i < n THEN Min(target_end, vs[i + 1].start) ELSE target_end)

enforce_min_duration(vs) == [i \in 1..Len(vs) |-> EnforceOne(vs, i)]

\* a mutation of StretchOne: the new end is computed from the start
StretchOne_FromStart(vs, i) ==
    LET v == vs[i]
        n == Len(vs)
        dur == v.end - v.start
        extra == (dur * (PLOSIVE_STRETCH_NUM - PLOSIVE_STRETCH_DEN)) \div PLOSIVE_STRETCH_DEN
        new_end == v.start + extra
    IN  IF v.name # PLOSIVE_VISEME_NAME
        THEN v
        ELSE Viseme(v.name, v.start,
                    IF i < n THEN Min(new_end, vs[i + 1].start) ELSE new_end)

\* a mutation of StretchOne: the clip against the next start is dropped
StretchOne_NoClip(vs, i) ==
    LET v == vs[i]
        dur == v.end - v.start
        extra == (dur * (PLOSIVE_STRETCH_NUM - PLOSIVE_STRETCH_DEN)) \div PLOSIVE_STRETCH_DEN
    IN  IF v.name # PLOSIVE_VISEME_NAME
        THEN v
        ELSE Viseme(v.name, v.start, v.end + extra)

\* a mutation of StretchOne: every category is stretched
StretchOne_AllNames(vs, i) ==
    LET v == vs[i]
        n == Len(vs)
        dur == v.end - v.start
        extra == (dur * (PLOSIVE_STRETCH_NUM - PLOSIVE_STRETCH_DEN)) \div PLOSIVE_STRETCH_DEN
        new_end == v.end + extra
    IN  Viseme(v.name, v.start,
               IF i < n THEN Min(new_end, vs[i + 1].start) ELSE new_end)

\* a mutation of StretchOne: the last interval is clipped like the others
StretchOne_LastUnstretched(vs, i) ==
    LET v == vs[i]
        n == Len(vs)
        dur == v.end - v.start
        extra == (dur * (PLOSIVE_STRETCH_NUM - PLOSIVE_STRETCH_DEN)) \div PLOSIVE_STRETCH_DEN
        new_end == v.end + extra
    IN  IF v.name # PLOSIVE_VISEME_NAME
        THEN v
        ELSE Viseme(v.name, v.start,
                    IF i < n THEN Min(new_end, vs[i + 1].start) ELSE v.end)

\* one iteration of the loop of _stretch_plosives
StretchOne(vs, i) ==
    LET v == vs[i]
        n == Len(vs)
        dur == v.end - v.start
        extra == (dur * (PLOSIVE_STRETCH_NUM - PLOSIVE_STRETCH_DEN)) \div PLOSIVE_STRETCH_DEN
        new_end == v.end + extra
    IN  IF v.name # PLOSIVE_VISEME_NAME
        THEN v
        ELSE Viseme(v.name, v.start,
                    IF i < n THEN Min(new_end, vs[i + 1].start) ELSE new_end)

stretch_plosives(vs) == [i \in 1..Len(vs) |-> StretchOne(vs, i)]

RECURSIVE InsertByStart(_, _)
\* insert v after every element whose start is <= v.start (sorted is stable)
InsertByStart(v, s) ==
    IF s = <<>> THEN <<v>>
    ELSE IF Head(s).start <= v.start
         THEN <<Head(s)>> \o InsertByStart(v, Tail(s))
         ELSE <<v>> \o s

RECURSIVE SortedByStart(_)
\* sorted(visemes, key=lambda v: v.start)
SortedByStart(vs) ==
    IF vs = <<>> THEN <<>>
    ELSE InsertByStart(vs[Len(vs)], SortedByStart(SubSeq(vs, 1, Len(vs) - 1)))

\* the assert loop of smooth_visemes over visemes_sorted
SortAssertHolds(s) == \A i \in 2..Len(s) : s[i].start >= s[i - 1].start

\* smooth_visemes as one call
smooth_visemes(vs) ==
    IF vs = <<>> THEN Returned(<<>>)
    ELSE LET srt == SortedByStart(vs) IN
         IF ~SortAssertHolds(srt) THEN Raised("AssertionError")
         ELSE LET s1 == merge_adjacent_identical(srt) IN
              IF s1.exc # "none" THEN s1
              ELSE merge_adjacent_identical(
                       stretch_plosives(enforce_min_duration(s1.val)))

----------------------------------------------------------------------------
(* visemes/map.py *)

\* A symbol is a Python str, modelled as the sequence of its characters.
\* the static ARPAbet -> viseme table, as (key, value) pairs
PHONEME_TO_VISEME ==
    { <<<<"P">>, "PBM">>, <<<<"B">>, "PBM">>, <<<<"M">>, "PBM">>,
      <<<<"F">>, "FV">>, <<<<"V">>, "FV">>, <<<<"T", "H">>, "TH">>,
      <<<<"D", "H">>, "TH">>, <<<<"S">>, "SZ">>, <<<<"Z">>, "SZ">>,
      <<<<"C", "H">>, "CHJ">>, <<<<"J", "H">>, "CHJ">>, <<<<"K">>, "KNG">>,
      <<<<"G">>, "KNG">>, <<<<"N", "G">>, "KNG">>, <<<<"Y">>, "Y">>,
      <<<<"U", "W">>, "UW">>, <<<<"U", "H">>, "UW">>, <<<<"O", "W">>, "UW">>,
      <<<<"W">>, "UW">>, <<<<"A", "A">>, "AA">>, <<<<"A", "E">>, "AA">>,
      <<<<"A", "H">>, "AA">>, <<<<"A", "O">>, "AA">>, <<<<"I", "Y">>, "IY">>,
      <<<<"I", "H">>, "IY">>, <<<<"E", "Y">>, "IY">>, <<<<"E", "H">>, "IY">>,
      <<<<"E", "R">>, "ER">>, <<<<"R">>, "ER">>, <<<<"L">>, "L">>,
      <<<<"H", "H">>, "REST">>, <<<<"S", "I", "L">>, "REST">> }

\* PHONEME_TO_VISEME.get(symbol, "REST")
TableGet(s) ==
    IF \E p \in PHONEME_TO_VISEME : p[1] = s
    THEN (CHOOSE p \in PHONEME_TO_VISEME : p[1] = s)[2]
    ELSE "REST"

LowerCase == <<"a", "b", "c", "d", "e", "f", "g", "h", "i", "j", "k", "l", "m", "n",
              "o", "p", "q", "r", "s", "t", "u", "v", "w", "x", "y", "z">>

UpperCase == <<"A", "B", "C", "D", "E", "F", "G", "H", "I", "J", "K", "L", "M", "N",
              "O", "P", "Q", "R", "S", "T", "U", "V", "W", "X", "Y", "Z">>

\* str.upper() on one character
UpperChar(c) ==
    IF \E i \in 1..Len(LowerCase) : LowerCase[i] = c
    THEN UpperCase[CHOOSE i \in 1..Len(LowerCase) : LowerCase[i] = c]
    ELSE c

\* the characters str.strip() removes
Whitespace == {" ", "\t", "\n", "\r"}

RECURSIVE LStrip(_)
LStrip(s) ==
    IF s # <<>> /\ Head(s) \in Whitespace THEN LStrip(Tail(s)) ELSE s

RECURSIVE RStrip(_)
RStrip(s) ==
    IF s # <<>> /\ s[Len(s)] \in Whitespace
    THEN RStrip(SubSeq(s, 1, Len(s) - 1))
    ELSE s

\* a mutation of normalize_symbol: the stress digit is kept
normalize_symbol_KeepStress(symbol) ==
    LET stripped == RStrip(LStrip(symbol))
    IN  [i \in 1..Len(stripped) |-> UpperChar(stripped[i])]

\* _normalize_symbol
normalize_symbol(symbol) ==
    LET stripped == RStrip(LStrip(symbol))
        s == [i \in 1..Len(stripped) |-> UpperChar(stripped[i])]
    IN  IF s # <<>> /\ s[Len(s)] \in {"0", "1", "2"}
        THEN SubSeq(s, 1, Len(s) - 1)
        ELSE s

\* a mutation of MapLoop: a phoneme with end < start is dropped
RECURSIVE MapLoop_DropBad(_, _)
MapLoop_DropBad(rest, out) ==
    IF rest = <<>>
    THEN Returned(out)
    ELSE LET p == Head(rest) IN
         IF ~(p.end >= p.start)
         THEN MapLoop_DropBad(Tail(rest), out)
         ELSE MapLoop_DropBad(Tail(rest),
                      Append(out, Viseme(TableGet(normalize_symbol(p.symbol)),
                                         p.start, p.end)))

RECURSIVE MapLoop(_, _)
\* the for loop of phonemes_to_visemes
MapLoop(rest, out) ==
    IF rest = <<>>
    THEN Returned(out)
    ELSE LET p == Head(rest) IN
         IF ~(p.end >= p.start)
         THEN Raised("AssertionError")
         ELSE MapLoop(Tail(rest),
                      Append(out, Viseme(TableGet(normalize_symbol(p.symbol)),
                                         p.start, p.end)))

phonemes_to_visemes(ps) == MapLoop(ps, <<>>)

----------------------------------------------------------------------------
(* render/renderer.py *)

\* ceil(a / b) for b > 0
CeilDiv(a, b) == -((-a) \div b)

\* a mutation of FrameCount: the product is truncated instead of rounded up
FrameCount_Floor(d) == (d * FPS) \div TicksPerSecond

\* a mutation of FrameCount: truncate and add one instead of rounding up
FrameCount_TruncPlusOne(d) == ((d * FPS) \div TicksPerSecond) + 1

\* int(np.ceil(duration * FPS)), duration in ticks
FrameCount(d) == CeilDiv(d * FPS, TicksPerSecond)

\* t = frame_idx / FPS, in ticks
SampleTime(frame_idx) == (frame_idx * TicksPerSecond) \div FPS

\* a mutation of IsActive: the end of the interval is inclusive
IsActive_EndInclusive(v, t) == v.start <= t /\ t <= v.end

\* the test of _render_frame: v.start <= t < v.end
IsActive(v, t) == v.start <= t /\ t < v.end

\* a mutation of FindActive: the rest category is reported when the scan
\* finds no interval
RECURSIVE FindActive_DefaultRest(_, _)
FindActive_DefaultRest(vs, t) ==
    IF vs = <<>> THEN "REST"
    ELSE IF IsActive(Head(vs), t) THEN Head(vs).name
         ELSE FindActive_DefaultRest(Tail(vs), t)

RECURSIVE FindActive(_, _)
\* the scan of _render_frame for the active viseme; "none" models None
FindActive(vs, t) ==
    IF vs = <<>> THEN "none"
    ELSE IF IsActive(Head(vs), t) THEN Head(vs).name
         ELSE FindActive(Tail(vs), t)

\* _render_frame: a frame is modelled by its sample instant and the category
\* whose sprite is composited on the base image
render_frame(t, vs) == [t |-> t, active |-> FindActive(vs, t)]

\* render_sequence as one call
render_sequence(vs, d) ==
    IF ~(FrameCount(d) > 0) THEN Raised("AssertionError")
    ELSE Returned([i \in 1..FrameCount(d) |-> render_frame(SampleTime(i - 1), vs)])

----------------------------------------------------------------------------
(* alignment/phonemes.py, mux/ffmpeg.py, main.py *)

S1(a) == <<a>>

S2(a, b) == <<a, b>>

S3(a, b, c) == <<a, b, c>>

\* stub_phonemes of _extract_phonemes_dev_stub
StubPhonemes ==
    << Phoneme(S2("A", "A"), Ms(0), Ms(250)),
       Phoneme(S1("M"), Ms(250), Ms(450)),
       Phoneme(S1("F"), Ms(450), Ms(650)),
       Phoneme(S1("S"), Ms(650), Ms(850)),
       Phoneme(S2("A", "H"), Ms(850), Ms(1100)),
       Phoneme(S1("P"), Ms(1100), Ms(1300)),
       Phoneme(S2("A", "A"), Ms(1300), Ms(1550)),
       Phoneme(S1("M"), Ms(1550), Ms(1750)),
       Phoneme(S3("S", "I", "L"), Ms(1750), Ms(2000)) >>

\* audio.samples.shape[0] / float(audio.sample_rate), in ticks; the quotient
\* TicksPerSecond / SAMPLE_RATE is reduced by 50 and n is split so that the
\* products stay within 32 bits
AudioDuration(n) ==
    LET den == SAMPLE_RATE \div 50
        num == TicksPerSecond \div 50
    IN  (n \div den) * num + ((n % den) * num) \div den

RECURSIVE ClipStub(_, _)
\* the list comprehension of _extract_phonemes_dev_stub
ClipStub(ps, audio_duration) ==
    IF ps = <<>> THEN <<>>
    ELSE LET p == Head(ps) IN
         IF p.start < audio_duration
         THEN <<Phoneme(p.symbol, p.start, Min(p.end, audio_duration))>>
                  \o ClipStub(Tail(ps), audio_duration)
         ELSE ClipStub(Tail(ps), audio_duration)

extract_phonemes_dev_stub(n) == ClipStub(StubPhonemes, AudioDuration(n))

\* the number of parameters of def extract_phonemes(audio)
ExtractPhonemesParams == 1

\* the number of arguments of the call extract_phonemes(audio_buffer, transcript)
OrchestrateExtractArgs == 2

\* extract_phonemes called with nargs positional arguments
extract_phonemes(nargs, n, mode) ==
    IF nargs # ExtractPhonemesParams THEN Raised("TypeError")
    ELSE IF mode = "stub" THEN Returned(extract_phonemes_dev_stub(n))
    ELSE Raised("NotImplementedError")

\* mux_frames_and_audio_to_mp4: its asserts and the exit code of ffmpeg
mux_frames_and_audio_to_mp4(fr, n, fps, ok) ==
    IF fps # 8 \/ ~(Len(fr) > 0) THEN Raised("AssertionError")
    ELSE IF ~ok THEN Raised("RuntimeError")
    ELSE IF Len(fr) # CeilDiv(AudioDuration(n) * fps, TicksPerSecond)
         THEN Raised("AssertionError")
    ELSE Returned(<<>>)

\* an _orchestrate that stopped with exception e after the stages st
Stopped(e, st) == [exc |-> e, stages |-> st, frames |-> <<>>]

\* _orchestrate as one call: the exception, the stages completed, the frames
orchestrate(n, mode, ok) ==
    LET ph == extract_phonemes(OrchestrateExtractArgs, n, mode) IN
    IF ph.exc # "none" THEN Stopped(ph.exc, <<>>)
    ELSE IF \E i \in 2..Len(ph.val) : ph.val[i].start < ph.val[i - 1].start
         THEN Stopped("AssertionError", <<>>)
    ELSE
    LET raw == phonemes_to_visemes(ph.val) IN
    IF raw.exc # "none" THEN Stopped(raw.exc, <<"extract">>)
    ELSE
    LET sm == smooth_visemes(raw.val) IN
    IF sm.exc # "none" THEN Stopped(sm.exc, <<"extract", "map">>)
    ELSE IF ~(AudioDuration(n) > 0)
         THEN Stopped("AssertionError", <<"extract", "map", "smooth">>)
    ELSE IF sm.val # <<>> /\ ~(sm.val[Len(sm.val)].start <= AudioDuration(n))
         THEN Stopped("AssertionError", <<"extract", "map", "smooth">>)
    ELSE
    LET fr == render_sequence(sm.val, AudioDuration(n)) IN
    IF fr.exc # "none" THEN Stopped(fr.exc, <<"extract", "map", "smooth">>)
    ELSE
    LET mx == mux_frames_and_audio_to_mp4(fr.val, n, FPS, ok) IN
    IF mx.exc # "none" THEN Stopped(mx.exc, <<"extract", "map", "smooth", "render">>)
    ELSE IF Len(fr.val) # CeilDiv(AudioDuration(n) * FPS, TicksPerSecond)
         THEN Stopped("AssertionError", <<"extract", "map", "smooth", "render", "mux">>)
    ELSE [exc |-> "none",
          stages |-> <<"extract", "map", "smooth", "render", "mux">>,
          frames |-> fr.val]

----------------------------------------------------------------------------
(* Bounds and inputs of the smoothing specification *)

MaxVisemes == 3

VisemeNames == {"AA", "PBM"}

\* (start, end) pairs the input intervals are drawn from
VisemeSpans ==
    { <<Ms(0), Ms(50)>>, <<Ms(0), Ms(100)>>, <<Ms(100), Ms(100)>>,
      <<Ms(100), Ms(200)>>, <<Ms(100) + 5, Ms(200)>>,
      <<Ms(100) + MERGE_TOLERANCE, Ms(200)>>, <<Ms(200), Ms(300)>>,
      <<Ms(50), Ms(100)>>, <<Ms(130), Ms(200)>> }

\* the input intervals: a plosive and a non-plosive category on every span,
\* and a third category on the closing span
VisemePool ==
    { Viseme(nm, sp[1], sp[2]) : nm \in VisemeNames, sp \in VisemeSpans }
        \cup { Viseme("REST", Ms(200), Ms(300)) }

SeqsUpTo(S, n) == UNION { [1..k -> S] : k \in 0..n }

Idle ==
    /\ exc = "none"
    /\ result = <<>>
    /\ visemes_sorted = <<>>
    /\ step1 = <<>>
    /\ step2 = <<>>
    /\ step3 = <<>>
    /\ step4 = <<>>
    /\ frame_count = 0
    /\ frames = <<>>
    /\ stages = <<>>

InitSmooth ==
    /\ pc = "smooth"
    /\ visemes \in SeqsUpTo(VisemePool, MaxVisemes)
    /\ phonemes = <<>>
    /\ duration = 0
    /\ n_samples = 0
    /\ phoneme_mode = ""
    /\ ffmpeg_ok = TRUE
    /\ Idle

\* smooth_visemes, lines 120-128: the empty check, the sort and its asserts
SmoothSort ==
    /\ pc = "smooth"
    /\ IF visemes = <<>>
       THEN /\ pc' = "returned"
            /\ result' = <<>>
            /\ UNCHANGED <<exc, visemes_sorted>>
       ELSE /\ visemes_sorted' = SortedByStart(visemes)
            /\ IF SortAssertHolds(visemes_sorted')
               THEN pc' = "step1" /\ UNCHANGED exc
               ELSE pc' = "raised" /\ exc' = "AssertionError"
            /\ UNCHANGED result
    /\ UNCHANGED <<phonemes, visemes, step1, step2, step3, step4, duration,
                   frame_count, frames, n_samples, phoneme_mode, ffmpeg_ok, stages>>

\* step1 = _merge_adjacent_identical(visemes_sorted)
SmoothMerge1 ==
    /\ pc = "step1"
    /\ LET r == merge_adjacent_identical(visemes_sorted) IN
       IF r.exc = "none"
       THEN step1' = r.val /\ pc' = "step2" /\ UNCHANGED exc
       ELSE exc' = r.exc /\ pc' = "raised" /\ UNCHANGED step1
    /\ UNCHANGED <<result, phonemes, visemes, visemes_sorted, step2, step3, step4,
                   duration, frame_count, frames, n_samples, phoneme_mode,
                   ffmpeg_ok, stages>>

\* step2 = _enforce_min_duration(step1)
SmoothEnforce ==
    /\ pc = "step2"
    /\ step2' = enforce_min_duration(step1)
    /\ pc' = "step3"
    /\ UNCHANGED <<exc, result, phonemes, visemes, visemes_sorted, step1, step3,
                   step4, duration, frame_count, frames, n_samples, phoneme_mode,
                   ffmpeg_ok, stages>>

\* step3 = _stretch_plosives(step2)
SmoothStretch ==
    /\ pc = "step3"
    /\ step3' = stretch_plosives(step2)
    /\ pc' = "step4"
    /\ UNCHANGED <<exc, result, phonemes, visemes, visemes_sorted, step1, step2,
                   step4, duration, frame_count, frames, n_samples, phoneme_mode,
                   ffmpeg_ok, stages>>

\* step4 = _merge_adjacent_identical(step3); return step4
SmoothMerge2 ==
    /\ pc = "step4"
    /\ LET r == merge_adjacent_identical(step3) IN
       IF r.exc = "none"
       THEN step4' = r.val /\ result' = r.val /\ pc' = "returned" /\ UNCHANGED exc
       ELSE exc' = r.exc /\ pc' = "raised" /\ UNCHANGED <<step4, result>>
    /\ UNCHANGED <<phonemes, visemes, visemes_sorted, step1, step2, step3,
                   duration, frame_count, frames, n_samples, phoneme_mode,
                   ffmpeg_ok, stages>>

NextSmooth ==
    \/ SmoothSort
    \/ SmoothMerge1
    \/ SmoothEnforce
    \/ SmoothStretch
    \/ SmoothMerge2

SpecSmooth == InitSmooth /\ [][NextSmooth]_vars

----------------------------------------------------------------------------
(* The mapping specification: one call of phonemes_to_visemes *)

MaxPhonemes == 2

\* the symbols of the input phonemes: table keys in either case, with and
\* without a stress digit, with whitespace around or inside, with a digit
\* that is no stress marker, with two digits, and unknown or empty symbols
Symbols ==
    { <<>>, <<"P">>, <<"p">>,
      <<"A", "A">>, <<"a", "a", "1">>, <<"A", "H", "0">>,
      <<"M", "2">>, <<" ", "P">>, <<"P", " ">>,
      <<" ", "a", "a", "1", " ">>, <<"P", "3">>, <<"P", "1", "1">>,
      <<"1">>, <<"X", "X">>, <<"S", "I", "L">>,
      <<"P", " ", "1">> }

\* (start, end) pairs of the input phonemes; the last has end < start
PhonemeSpans == { <<Ms(0), Ms(100)>>, <<Ms(100), Ms(100)>>, <<Ms(100), Ms(50)>> }

PhonemePool == { Phoneme(sy, sp[1], sp[2]) : sy \in Symbols, sp \in PhonemeSpans }

InitMap ==
    /\ pc = "map"
    /\ phonemes \in SeqsUpTo(PhonemePool, MaxPhonemes)
    /\ visemes = <<>>
    /\ duration = 0
    /\ n_samples = 0
    /\ phoneme_mode = ""
    /\ ffmpeg_ok = TRUE
    /\ Idle

\* phonemes_to_visemes(phonemes)
MapCall ==
    /\ pc = "map"
    /\ LET r == phonemes_to_visemes(phonemes) IN
       /\ exc' = r.exc
       /\ result' = r.val
       /\ pc' = IF r.exc = "none" THEN "returned" ELSE "raised"
    /\ UNCHANGED <<phonemes, visemes, visemes_sorted, step1, step2, step3, step4,
                   duration, frame_count, frames, n_samples, phoneme_mode,
                   ffmpeg_ok, stages>>

NextMap == MapCall

SpecMap == InitMap /\ [][NextMap]_vars

----------------------------------------------------------------------------
(* The rendering specification: one call of render_sequence *)

MaxTimeline == 2

TimelineNames == {"AA", "PBM"}

\* (start, end) pairs of the timelines handed to the renderer, malformed
\* (overlapping, zero-length) ones included
TimelineSpans ==
    { <<Ms(0), Ms(125)>>, <<Ms(125), Ms(250)>>, <<Ms(125), Ms(125)>>,
      <<Ms(0), Ms(250)>>, <<Ms(250), Ms(2600)>> }

TimelinePool == { Viseme(nm, sp[1], sp[2]) : nm \in TimelineNames, sp \in TimelineSpans }

\* the durations (in ticks) render_sequence is called with
Durations == { 0 - Ms(125), 0, Ms(100), Ms(125), Ms(250), Ms(300), Ms(1000), Ms(2530) }

InitRender ==
    /\ pc = "render"
    /\ visemes \in SeqsUpTo(TimelinePool, MaxTimeline)
    /\ duration \in Durations
    /\ phonemes = <<>>
    /\ n_samples = 0
    /\ phoneme_mode = ""
    /\ ffmpeg_ok = TRUE
    /\ Idle

\* render_sequence, lines 68-71: the frame count and its assert
RenderCall ==
    /\ pc = "render"
    /\ frame_count' = FrameCount(duration)
    /\ IF frame_count' > 0
       THEN pc' = "render_loop" /\ UNCHANGED exc
       ELSE pc' = "raised" /\ exc' = "AssertionError"
    /\ UNCHANGED <<result, phonemes, visemes, visemes_sorted, step1, step2, step3,
                   step4, duration, frames, n_samples, phoneme_mode, ffmpeg_ok,
                   stages>>

\* one iteration of the loop of render_sequence
RenderFrame ==
    /\ pc = "render_loop"
    /\ Len(frames) < frame_count
    /\ frames' = Append(frames, render_frame(SampleTime(Len(frames)), visemes))
    /\ UNCHANGED <<pc, exc, result, phonemes, visemes, visemes_sorted, step1,
                   step2, step3, step4, duration, frame_count, n_samples,
                   phoneme_mode, ffmpeg_ok, stages>>

\* return frames
RenderReturn ==
    /\ pc = "render_loop"
    /\ Len(frames) = frame_count
    /\ result' = frames
    /\ pc' = "returned"
    /\ UNCHANGED <<exc, phonemes, visemes, visemes_sorted, step1, step2, step3,
                   step4, duration, frame_count, frames, n_samples, phoneme_mode,
                   ffmpeg_ok, stages>>

NextRender ==
    \/ RenderCall
    \/ RenderFrame
    \/ RenderReturn

SpecRender == InitRender /\ [][NextRender]_vars

----------------------------------------------------------------------------
(* The orchestration specification: one call of _orchestrate *)

\* the audio buffers have 0 .. MaxTenths tenths of a second of samples
MaxTenths == 26

InitOrch ==
    /\ pc = "orchestrate"
    /\ n_samples \in { k * (SAMPLE_RATE \div 10) : k \in 0..MaxTenths }
    /\ phoneme_mode \in {"stub", ""}
    /\ ffmpeg_ok \in BOOLEAN
    /\ phonemes = <<>>
    /\ visemes = <<>>
    /\ duration = 0
    /\ Idle

\* _orchestrate(audio_buffer, sprites_dir, output_path)
Orchestrate ==
    /\ pc = "orchestrate"
    /\ LET r == orchestrate(n_samples, phoneme_mode, ffmpeg_ok) IN
       /\ exc' = r.exc
       /\ stages' = r.stages
       /\ frames' = r.frames
       /\ pc' = IF r.exc = "none" THEN "returned" ELSE "raised"
    /\ UNCHANGED <<result, phonemes, visemes, visemes_sorted, step1, step2, step3,
                   step4, duration, frame_count, n_samples, phoneme_mode,
                   ffmpeg_ok>>

NextOrch == Orchestrate

SpecOrch == InitOrch /\ [][NextOrch]_vars

----------------------------------------------------------------------------
(* Properties of the smoother *)

Dur(v) == v.end - v.start

Last(s) == s[Len(s)]

\* sorted ascending by start, and no interval ends after a later one starts
SortedNonOverlapping(s) ==
    \A i, j \in 1..Len(s) : i < j =>
        /\ s[i].start <= s[j].start
        /\ s[i].end <= s[j].start

ValidTimeline(s) ==
    /\ SortedNonOverlapping(s)
    /\ \A i \in 1..Len(s) : s[i].end >= s[i].start

\* the passes of smooth_visemes that have completed
Done1 == pc \in {"step2", "step3", "step4"} \/ (pc = "returned" /\ visemes # <<>>)

Done2 == pc \in {"step3", "step4"} \/ (pc = "returned" /\ visemes # <<>>)

Done3 == pc = "step4" \/ (pc = "returned" /\ visemes # <<>>)

Done4 == pc = "returned" /\ visemes # <<>>

\* C1: for a sorted, non-overlapping input with end >= start everywhere, the
\* sequence after each of the four passes, and so the returned sequence, is
\* sorted by start and pairwise non-overlapping.
C1_NonOverlapPreserved ==
    ValidTimeline(visemes) =>
        /\ Done1 => SortedNonOverlapping(step1)
        /\ Done2 => SortedNonOverlapping(step2)
        /\ Done3 => SortedNonOverlapping(step3)
        /\ Done4 => SortedNonOverlapping(step4)
        /\ pc = "returned" => SortedNonOverlapping(result)

\* a valid input of several intervals that the smoother returned changed
C1_Witness ==
    /\ pc = "returned"
    /\ ValidTimeline(visemes)
    /\ Len(visemes) >= 2
    /\ step2 # step1
    /\ step3 # step2
    /\ Len(result) >= 2

\* every interval with a successor lasts the minimum or ends at its successor
MinDurationOrClipped(s) ==
    \A i \in 1..Len(s) - 1 :
        Dur(s[i]) >= MIN_VISEME_DURATION \/ s[i].end = s[i + 1].start

MergeKeepsEnds(in, out) ==
    \A i \in 1..Len(in) : \E j \in 1..Len(out) :
        /\ out[j].name = in[i].name
        /\ out[j].start <= in[i].start
        /\ out[j].end >= in[i].end

\* an index-wise pass lowers no end
PassKeepsEnds(in, out) ==
    /\ Len(out) = Len(in)
    /\ \A i \in 1..Len(in) : out[i].end >= in[i].end

\* C3: for a valid input, no interval leaves any of the four passes with an
\* end lower than it had entering the pass; a merged interval's end is at
\* least the end of each interval merged into it.
C3_EndsNeverDecrease ==
    ValidTimeline(visemes) =>
        /\ Done1 => MergeKeepsEnds(visemes_sorted, step1)
        /\ Done2 => PassKeepsEnds(step1, step2)
        /\ Done3 => PassKeepsEnds(step2, step3)
        /\ Done4 => MergeKeepsEnds(step3, step4)

\* a run in which the extension, the stretch and both merges all acted
C3_Witness ==
    /\ pc = "returned"
    /\ ValidTimeline(visemes)
    /\ Len(step1) < Len(visemes_sorted)
    /\ \E i \in 1..Len(step1) : step2[i].end > step1[i].end
    /\ \E i \in 1..Len(step2) : step3[i].end > step2[i].end
    /\ Len(step4) < Len(step3)

\* some element's start precedes the running maximum start before it
NonMonotonic(s) == \E i, j \in 1..Len(s) : i < j /\ s[j].start < s[i].start

\* two intervals share more than an instant
Overlapping(s) ==
    \E i, j \in 1..Len(s) :
        i # j /\ s[i].start < s[j].end /\ s[j].start < s[i].end

\* C4: smooth_visemes fails, returning no timeline, whenever its input is
\* non-monotonic or contains two overlapping intervals.
C4_RejectsInvalidInput ==
    (NonMonotonic(visemes) \/ Overlapping(visemes)) => pc # "returned"

\* the single interval a set of merge decisions gives each run of intervals:
\* b[i] says that interval i + 1 was merged into the run holding interval i
GroupHead(b, i) ==
    CHOOSE k \in 1..i : (k = 1 \/ ~b[k - 1]) /\ \A m \in k..(i - 1) : b[m]

SetMax(S) == CHOOSE x \in S : \A y \in S : y <= x

SetMin(S) == CHOOSE x \in S : \A y \in S : x <= y

RunningEnd(in, b, i) == SetMax({ in[m].end : m \in GroupHead(b, i)..i })

\* interval i + 1 is merged exactly when it has the category of the running
\* interval and starts within the tolerance of the running interval's end
DecisionsAsClaimed(in, b) ==
    \A i \in 1..Len(in) - 1 :
        b[i] <=> /\ in[i + 1].name = in[GroupHead(b, i)].name
                 /\ Abs(in[i + 1].start - RunningEnd(in, b, i)) < MERGE_TOLERANCE

Heads(in, b) == { k \in 1..Len(in) : k = 1 \/ ~b[k - 1] }

Members(in, b, k) == { m \in k..Len(in) : GroupHead(b, m) = k }

\* the j-th run: its category, its minimum start and its maximum end
SpanOfRun(in, b, j) ==
    LET k == CHOOSE h \in Heads(in, b) :
                 Cardinality({ g \in Heads(in, b) : g <= h }) = j
    IN  Viseme(in[k].name,
               SetMin({ in[m].start : m \in Members(in, b, k) }),
               SetMax({ in[m].end : m \in Members(in, b, k) }))

IsMergeOf(in, out) ==
    IF in = <<>> THEN out = <<>>
    ELSE \E b \in [1..(Len(in) - 1) -> BOOLEAN] :
            /\ DecisionsAsClaimed(in, b)
            /\ out = [j \in 1..Cardinality(Heads(in, b)) |-> SpanOfRun(in, b, j)]

ScenarioA_Phonemes ==
    << Phoneme(S2("A", "A"), Ms(0), Ms(100)),
       Phoneme(S2("A", "A"), Ms(100), Ms(200)),
       Phoneme(S3("S", "I", "L"), Ms(200), Ms(300)) >>

ScenarioA_Visemes ==
    << Viseme("AA", Ms(0), Ms(100)), Viseme("AA", Ms(100), Ms(200)),
       Viseme("REST", Ms(200), Ms(300)) >>

\* C9: each merge pass merges an interval into the running one exactly when
\* the categories agree and its start is within 1e-6 s of the running end; a
\* merged interval keeps the category and spans minimum start to maximum end.
\* Mapping and smoothing AA(0,0.1), AA(0.1,0.2), SIL(0.2,0.3) gives exactly
\* AA(0,0.2), REST(0.2,0.3).
C9_MergeRule ==
    /\ Done1 => IsMergeOf(visemes_sorted, step1)
    /\ Done4 => IsMergeOf(step3, step4)
    /\ phonemes_to_visemes(ScenarioA_Phonemes) = Returned(ScenarioA_Visemes)
    /\ (pc = "returned" /\ visemes = ScenarioA_Visemes) =>
           result = << Viseme("AA", Ms(0), Ms(200)), Viseme("REST", Ms(200), Ms(300)) >>

\* scenario A has been smoothed
C9_Witness ==
    /\ pc = "returned"
    /\ visemes = ScenarioA_Visemes
    /\ Len(result) = 2

ScenarioB_Visemes == << Viseme("PBM", Ms(0), Ms(50)) >>

----------------------------------------------------------------------------
(* Properties of the renderer *)

\* C5: for a duration D > 0 render_sequence does not fail and returns exactly
\* ceil(D * 8) frames, frame i sampled at i / 8, whatever the timeline;
\* D = 2.53 s gives 21 frames.
C5_FrameCountLaw ==
    /\ duration > 0 => pc # "raised"
    /\ pc = "returned" =>
          /\ Len(result) * TicksPerSecond >= duration * FPS
          /\ (Len(result) - 1) * TicksPerSecond < duration * FPS
          /\ \A i \in 1..Len(result) : result[i].t * FPS = (i - 1) * TicksPerSecond
          /\ duration = Ms(2530) => Len(result) = 21

\* 21 frames were returned for D = 2.53 s and a timeline that runs past D
C5_Witness ==
    /\ pc = "returned"
    /\ duration = Ms(2530)
    /\ Len(result) = 21
    /\ \E i \in 1..Len(visemes) : visemes[i].end > duration

\* the category of the first interval, in sequence order, with
\* start <= t < end; "none" when there is no such interval
FirstActive(vs, t) ==
    LET M == { i \in 1..Len(vs) : vs[i].start <= t /\ t < vs[i].end }
    IN  IF M = {} THEN "none" ELSE vs[SetMin(M)].name

\* C6: the active category of every rendered frame is that of the first
\* interval in sequence order with start <= t < end, and none when no
\* interval satisfies it.
C6_ActiveLookup ==
    \A k \in 1..Len(frames) : frames[k].active = FirstActive(visemes, frames[k].t)

\* a frame sampled at the boundary shared by two touching intervals of
\* different categories shows the later one, and a frame sampled at or after
\* the end of the last interval shows none
C6_Witness ==
    /\ Len(visemes) = 2
    /\ visemes[1].end = visemes[2].start
    /\ visemes[1].start < visemes[1].end
    /\ visemes[1].name # visemes[2].name
    /\ \E k \in 1..Len(frames) :
          /\ frames[k].t = visemes[2].start
          /\ frames[k].active = visemes[2].name
    /\ \E k \in 1..Len(frames) :
          /\ frames[k].t = visemes[2].end
          /\ frames[k].active = "none"

----------------------------------------------------------------------------
(* Properties of the mapper *)

StressDigits == {"0", "1", "2"}

\* the fixed category set: the values of the table
CategorySet == { p[2] : p \in PHONEME_TO_VISEME }

UpperOf(sym) == [i \in 1..Len(sym) |-> UpperChar(sym[i])]

DropStress(s) ==
    IF Len(s) > 0 /\ s[Len(s)] \in StressDigits THEN SubSeq(s, 1, Len(s) - 1) ELSE s

\* the symbol without its leading and trailing whitespace
Core(sym) ==
    LET N == { i \in 1..Len(sym) : sym[i] \notin Whitespace }
    IN  IF N = {} THEN <<>> ELSE SubSeq(sym, SetMin(N), SetMax(N))

\* the output is per-element: same length, same timing, and the category that
\* the normalization norm and the table (REST when absent) give
MapsPerElement(norm(_)) ==
    /\ (\A i \in 1..Len(phonemes) : phonemes[i].end >= phonemes[i].start) =>
           pc # "raised"
    /\ pc = "returned" =>
          /\ Len(result) = Len(phonemes)
          /\ \A i \in 1..Len(phonemes) :
                /\ result[i].start = phonemes[i].start
                /\ result[i].end = phonemes[i].end
                /\ result[i].name \in CategorySet
                /\ LET s == norm(phonemes[i].symbol) IN
                   IF \E p \in PHONEME_TO_VISEME : p[1] = s
                   THEN <<s, result[i].name>> \in PHONEME_TO_VISEME
                   ELSE result[i].name = "REST"

NormUpperDropStress(sym) == DropStress(UpperOf(sym))

NormStripUpperDropStress(sym) == DropStress(UpperOf(Core(sym)))

\* C7 as stated: the i-th output has the i-th phoneme's timing and the table
\* entry (or REST) of the symbol uppercased with one trailing stress digit
\* stripped.
C7_AsStated == MapsPerElement(NormUpperDropStress)

\* C7 amended: the normalization first strips leading and trailing
\* whitespace, then uppercases, then strips one trailing stress digit.
C7_MappingPerElement == MapsPerElement(NormStripUpperDropStress)

\* two phonemes were mapped: one whose symbol needs whitespace stripping and
\* stress stripping to be found in the table, one unknown symbol giving REST
C7_Witness ==
    /\ pc = "returned"
    /\ Len(phonemes) = 2
    /\ phonemes[1].symbol = <<" ", "a", "a", "1", " ">>
    /\ result[1].name = "AA"
    /\ phonemes[2].symbol = <<"P", "1", "1">>
    /\ result[2].name = "REST"

----------------------------------------------------------------------------
(* Properties of the orchestration *)

\* C8: with PHONEME_MODE=stub, a positive-duration buffer and a working
\* ffmpeg, _orchestrate completes the stages extraction, mapping, smoothing,
\* rendering, muxing in order without raising, with ceil(duration * FPS)
\* frames rendered.
C8_StubPipelineCompletes ==
    (/\ pc # "orchestrate"
     /\ phoneme_mode = "stub"
     /\ AudioDuration(n_samples) > 0
     /\ ffmpeg_ok) =>
        /\ exc = "none"
        /\ stages = <<"extract", "map", "smooth", "render", "mux">>
        /\ Len(frames) * TicksPerSecond >= AudioDuration(n_samples) * FPS
        /\ (Len(frames) - 1) * TicksPerSecond < AudioDuration(n_samples) * FPS

----------------------------------------------------------------------------
(* Empty input and fatal preconditions *)

\* C11: empty input raises nowhere: phonemes_to_visemes, each smoothing pass
\* and smooth_visemes return [] for [], and render_sequence on an empty
\* timeline with D > 0 returns ceil(D * 8) frames, none of them with an
\* active category; D = 1.0 s gives 8 such frames.
C11_EmptyInputSilent ==
    /\ phonemes_to_visemes(<<>>) = Returned(<<>>)
    /\ merge_adjacent_identical(<<>>) = Returned(<<>>)
    /\ enforce_min_duration(<<>>) = <<>>
    /\ stretch_plosives(<<>>) = <<>>
    /\ smooth_visemes(<<>>) = Returned(<<>>)
    /\ (visemes = <<>> /\ duration > 0) =>
          /\ pc # "raised"
          /\ \A k \in 1..Len(frames) : frames[k].active = "none"
          /\ pc = "returned" =>
                /\ Len(result) * TicksPerSecond >= duration * FPS
                /\ (Len(result) - 1) * TicksPerSecond < duration * FPS
                /\ \A k \in 1..Len(result) : result[k].active = "none"
                /\ duration = Ms(1000) => Len(result) = 8

\* eight frames were returned for the empty timeline and D = 1.0 s
C11_Witness ==
    /\ pc = "returned"
    /\ visemes = <<>>
    /\ duration = Ms(1000)
    /\ Len(result) = 8
    /\ \A k \in 1..8 : result[k].active = "none"

\* C12: with a duration D <= 0 render_sequence fails before it renders any
\* frame and returns no frame sequence, whatever the timeline.
C12_NonPositiveDurationFatal ==
    duration <= 0 =>
        /\ pc \in {"render", "raised"}
        /\ frames = <<>>
        /\ result = <<>>
        /\ pc = "raised" => exc = "AssertionError"

\* the call failed for a duration D <= 0 and a non-empty timeline
C12_Witness ==
    /\ pc = "raised"
    /\ exc = "AssertionError"
    /\ duration <= 0
    /\ visemes # <<>>
    /\ frames = <<>>

\* C13: phonemes_to_visemes fails, returning no viseme sequence, whenever
\* some phoneme of its input has end < start.
C13_NegativeDurationFatal ==
    (\E i \in 1..Len(phonemes) : phonemes[i].end < phonemes[i].start) =>
        /\ pc # "returned"
        /\ result = <<>>
        /\ pc # "map" => (pc = "raised" /\ exc = "AssertionError")

\* the call failed on an input whose second phoneme has end < start
C13_Witness ==
    /\ pc = "raised"
    /\ exc = "AssertionError"
    /\ Len(phonemes) = 2
    /\ phonemes[1].end >= phonemes[1].start
    /\ phonemes[2].end < phonemes[2].start

----------------------------------------------------------------------------
(* Span, stretch rule and frame of the smoother *)

\* C14: for a valid non-empty input the output starts where the input starts,
\* its last end is not before the last input end, and no output interval but
\* the last ends after the last input interval's end.
C14_SpanPreserved ==
    (pc = "returned" /\ visemes # <<>> /\ ValidTimeline(visemes)) =>
        /\ result # <<>>
        /\ result[1].start = visemes[1].start
        /\ Last(result).end >= Last(visemes).end
        /\ \A i \in 1..Len(result) - 1 : result[i].end <= Last(visemes).end

\* an output of several intervals whose last end exceeds the input's last end
\* and whose first interval was extended
C14_Witness ==
    /\ pc = "returned"
    /\ ValidTimeline(visemes)
    /\ Len(result) >= 2
    /\ Last(result).end > Last(visemes).end
    /\ result[1].end > visemes[1].end

\* what the stretch pass is claimed to make of interval i of its input
StretchedAsClaimed(in, out, i) ==
    IF in[i].name # PLOSIVE_VISEME_NAME
    THEN out[i] = in[i]
    ELSE /\ out[i].name = in[i].name
         /\ out[i].start = in[i].start
         /\ LET full10 == in[i].end * PLOSIVE_STRETCH_DEN
                              + Dur(in[i]) * (PLOSIVE_STRETCH_NUM - PLOSIVE_STRETCH_DEN)
            IN  IF i < Len(in) /\ in[i + 1].start * PLOSIVE_STRETCH_DEN < full10
                THEN out[i].end = in[i + 1].start
                ELSE out[i].end * PLOSIVE_STRETCH_DEN = full10

\* C15: the stretch pass changes PBM intervals only: a PBM end becomes
\* min(end + 0.2 * (end - start), next start in the pass's input), unclipped
\* for the last interval; every other interval is returned unchanged.
C15_StretchRule ==
    Done3 =>
        /\ Len(step3) = Len(step2)
        /\ \A i \in 1..Len(step2) : StretchedAsClaimed(step2, step3, i)

\* a stretch pass that clipped one PBM interval at its neighbour, stretched
\* the last PBM interval in full and left another category alone
C15_Witness ==
    /\ Done3
    /\ Len(step2) = 3
    /\ step2[1].name = PLOSIVE_VISEME_NAME
    /\ step3[1].end = step2[2].start
    /\ step3[1].end > step2[1].end
    /\ step2[2].name # PLOSIVE_VISEME_NAME
    /\ step2[3].name = PLOSIVE_VISEME_NAME
    /\ step3[3].end > step2[3].end

\* every output interval has the category and start of some input interval,
\* and there are no more output intervals than input intervals
FramedBy(in, out) ==
    /\ Len(out) <= Len(in)
    /\ \A j \in 1..Len(out) : \E i \in 1..Len(in) :
          out[j].name = in[i].name /\ out[j].start = in[i].start

\* C16: smooth_visemes moves no start, changes no category and creates no
\* interval, after every pass and in its result, and it leaves the caller's
\* input sequence as it was.
C16_Frame ==
    /\ [](/\ Done1 => FramedBy(visemes, step1)
          /\ Done2 => FramedBy(visemes, step2)
          /\ Done3 => FramedBy(visemes, step3)
          /\ pc = "returned" => FramedBy(visemes, result))
    /\ [][visemes' = visemes]_vars

\* an unsorted input was smoothed into fewer intervals with changed ends
C16_Witness ==
    /\ pc = "returned"
    /\ NonMonotonic(visemes)
    /\ Len(result) < Len(visemes)
    /\ \E j \in 1..Len(result) : \A i \in 1..Len(visemes) : result[j] # visemes[i]

====
